---- MODULE Spec2Model ----
(***************************************************************************)
(* Script execution pipelines of the LEGO model generator.                 *)
(*                                                                         *)
(*   node hosts   : the express route POST /api/build (server.ts) and the  *)
(*                  CLI BrickyardApp.buildFromPrompt, both of which call   *)
(*                  CodeExecutor.validateCode and then                     *)
(*                  CodeExecutor.executeGeneratedCode (vm sandbox);        *)
(*   browser host : the LDrawCodeEditor component, whose executeCode runs  *)
(*                  the editor text through new Function, on mount, on a   *)
(*                  debounce timer (live preview) or on the Generate       *)
(*                  button;                                                *)
(*   builder host : the LDrawBuilder of the editor, its serializer and the *)
(*                  parser that reads the text back;                       *)
(*   colours host : a builder driven through setColor and the convenience  *)
(*                  placement calls addBrick, addPlate and addWheel;       *)
(*   parser host  : parseLDrawFile on files of a few lines;                *)
(*   api host     : the endpoint /api/output/[...path] that serves the     *)
(*                  files of the output directory;                         *)
(*   page host    : the page Home, its handleModelGenerated requests and   *)
(*                  the LDRViewer it renders.                              *)
(*                                                                         *)
(* A script is modelled by the statements it is made of: an optional       *)
(* prologue "const builder = new LDrawBuilder()" and a body, a sequence of *)
(* statements drawn from a small alphabet.  The text scanned by            *)
(* validateCode and the behaviour of the run are both derived from it.     *)
(***************************************************************************)
EXTENDS Integers, Sequences, FiniteSets, TLC

\* ------------------------------------------------------------------ bounds
MaxOps == 2          \* longest script body, in statements
MaxBurst == 3        \* the edit counter of a burst saturates here
MaxElements == 3     \* longest element list of a builder
MaxLines == 2        \* longest file handed to the parser, in lines
MaxRequests == 2     \* handleModelGenerated calls made on the page
MaxSegments == 3     \* longest path of a request to the output endpoint

\* --------------------------------------------------------------- scripts
\* Statements of a script run by the node hosts:
\*   addPart        builder.addPart('3001', Colors.RED, 0, 0, 0)
\*   save           builder.save('model.ldr')       (aiService guideline 4)
\*   setColor       Colors.RED = Colors.BLACK
\*   requireBuilder const { LDrawBuilder, Colors } = require('./ldrawBuilder')
\*   requireOther   require('child_process')
\*   eval           eval('1')
\*   throwError     throw new Error('boom')
\*   throwValue     throw 'boom'
\*   loop           while (true) {}
NodeOps ==
  {"addPart", "save", "setColor", "requireBuilder", "requireOther",
   "eval", "throwError", "throwValue", "loop"}

\* Statements of a script typed into the browser editor:
\*   save     builder.save()           saveAs   builder.save('custom')
\*   return   return builder.getContent()
BrowserOps ==
  {"addPart", "save", "saveAs", "return", "eval",
   "throwError", "throwValue", "loop"}

Bodies(ops) == UNION {[1..n -> ops] : n \in 0..MaxOps}

NodeScripts == [builder : BOOLEAN, body : Bodies(NodeOps)]

Range(s) == {s[i] : i \in DOMAIN s}

\* The fragments of source text a statement contains, as far as validateCode
\* looks at them (its regular expressions and its includes() calls).
OpText(op) ==
  CASE op = "addPart" -> {"builder"}
    [] op = "save" -> {"builder"}
    [] op = "saveAs" -> {"builder"}
    [] op = "return" -> {"builder"}
    [] op = "requireBuilder" -> {"require(", "require('./ldrawBuilder')"}
    [] op = "requireOther" -> {"require("}
    [] op = "eval" -> {"eval("}
    [] OTHER -> {}

Fragments(s) ==
  (IF s.builder THEN {"new LDrawBuilder", "builder"} ELSE {})
    \cup UNION {OpText(s.body[i]) : i \in DOMAIN s.body}

\* ---------------------------------------------------------- validateCode
dangerousPatterns ==
  << "process.", "require(", "import ", "eval(", "Function(", "exec(",
     "spawn(", "__dirname", "__filename", "fs.", "path." >>

\* The for-loop over dangerousPatterns: FALSE at the first pattern that
\* matches and is not waved through by the './ldrawBuilder' exception.
RECURSIVE ScanPatterns(_, _)
ScanPatterns(frags, i) ==
  IF i > Len(dangerousPatterns) THEN TRUE
  ELSE LET pattern == dangerousPatterns[i] IN
       IF pattern \in frags
       THEN IF pattern = "require(" /\ "require('./ldrawBuilder')" \in frags
            THEN ScanPatterns(frags, i + 1)
            ELSE FALSE
       ELSE ScanPatterns(frags, i + 1)

validateCode(s) ==
  LET frags == Fragments(s) IN
    /\ ScanPatterns(frags, 1)
    /\ ("new LDrawBuilder" \in frags \/ "builder" \in frags)

\* ----------------------------------------------------------- colour table
ColorNames == {"BLACK", "RED"}
ColorTable == [n \in ColorNames |-> IF n = "RED" THEN 4 ELSE 0]

\* ------------------------------------------------------------ file paths
\* A path is a directory (sequence of segments) and a file name (sequence of
\* characters); the extension .ldr is implied.
serverOutputDir == << ".", "output" >>
cliOutputDir == << ".", "website", "output" >>
ScriptSavePath == [dir |-> << "." >>, file |-> << "m", "o", "d", "e", "l" >>]

OutputDirOf(h) == IF h = "cli" THEN cliOutputDir ELSE serverOutputDir

IsPrefix(p, q) == Len(p) <= Len(q) /\ SubSeq(q, 1, Len(p)) = p

InsideDir(p, dir) ==
  /\ IsPrefix(dir, p.dir)
  /\ ".." \notin Range(p.dir)
  /\ "/" \notin Range(p.file)

\* Prompts, as sequences of characters.
Prompts ==
  { << >>, << " " >>, << "C", "a", "r" >>, << ".", ".", "/", "x" >> }

ToLowerCase(c) == IF c = "C" THEN "c" ELSE c
LowerAlnum == {"a", "c", "r", "x"}
ModelNameMax == 30

RECURSIVE MapChars(_)
MapChars(s) ==
  IF s = << >> THEN << >>
  ELSE LET c == ToLowerCase(Head(s)) IN
       << IF c \in LowerAlnum THEN c ELSE "_" >> \o MapChars(Tail(s))

\* prompt.toLowerCase().replace(/[^a-z0-9]/g, '_').substring(0, 30)
ModelName(p) ==
  LET m == MapChars(p) IN
    SubSeq(m, 1, IF Len(m) < ModelNameMax THEN Len(m) ELSE ModelNameMax)

RECURSIVE TrimLeft(_)
TrimLeft(s) ==
  IF s # << >> /\ Head(s) = " " THEN TrimLeft(Tail(s)) ELSE s

RECURSIVE TrimRight(_)
TrimRight(s) ==
  IF s # << >> /\ s[Len(s)] = " " THEN TrimRight(SubSeq(s, 1, Len(s) - 1))
  ELSE s

Trim(s) == TrimRight(TrimLeft(s))

\* ------------------------------------------------- executeGeneratedCode
\* State of one vm run: whether `builder` is bound, the parts of the
\* builder, the host's Colors object, the files on disk, the files this run
\* has written, and what was thrown.
Throw(st, kind, msg) == [st EXCEPT !.thrown = kind, !.msg = msg]

NodeStep(op, st) ==
  CASE op = "addPart" ->
         IF st.builder
         THEN [st EXCEPT !.parts = Append(@, st.colors["RED"])]
         ELSE Throw(st, "Error", "builder is not defined")
    [] op = "save" ->
         IF st.builder
         THEN [st EXCEPT !.files = @ \cup {ScriptSavePath},
                         !.written = @ \cup {ScriptSavePath}]
         ELSE Throw(st, "Error", "builder is not defined")
    [] op = "setColor" ->
         [st EXCEPT !.colors = [@ EXCEPT !["RED"] = st.colors["BLACK"]]]
    [] op = "requireBuilder" -> st
    [] op = "requireOther" -> Throw(st, "Error", "Module is not allowed")
    [] op = "eval" -> st
    [] op = "throwError" -> Throw(st, "Error", "boom")
    [] op = "throwValue" -> Throw(st, "value", "boom")
    [] op = "loop" -> Throw(st, "timeout", "Script execution timed out")
    [] OTHER -> Throw(st, "Error", "not a function")

RECURSIVE NodeSteps(_, _)
NodeSteps(ops, st) ==
  IF ops = << >> \/ st.thrown # "none" THEN st
  ELSE NodeSteps(Tail(ops), NodeStep(Head(ops), st))

\* The wrapper appended to the script: save to the engine's path when a
\* builder is bound, throw otherwise.
WrappedCode(s, outputPath, st0) ==
  LET st == NodeSteps(s.body, st0) IN
    IF st.thrown # "none" THEN st
    ELSE IF st.builder
         THEN [st EXCEPT !.files = @ \cup {outputPath},
                         !.written = @ \cup {outputPath},
                         !.document = st.parts]
         ELSE Throw(st, "Error", "No builder instance found")

NoDocument == << "none" >>

executeGeneratedCode(s, outputDir, modelName, colors, files) ==
  LET outputPath == [dir |-> outputDir, file |-> modelName]
      st0 == [builder |-> s.builder, parts |-> << >>, colors |-> colors,
              files |-> files, written |-> {}, document |-> NoDocument,
              thrown |-> "none", msg |-> ""]
      st1 == WrappedCode(s, outputPath, st0)
      st == IF st1.thrown = "none" /\ outputPath \notin st1.files
            THEN Throw(st1, "Error", "Model file was not created")
            ELSE st1
  IN [colors |-> st.colors, files |-> st.files, written |-> st.written,
      document |-> IF st.thrown = "none" THEN st.document ELSE NoDocument,
      thrown |-> st.thrown,
      thrownMsg |-> IF st.thrown \in {"Error", "value"} THEN st.msg ELSE "",
      outcome |-> CASE st.thrown = "none" -> "completed"
                    [] st.thrown = "timeout" -> "timedOut"
                    [] OTHER -> "errored",
      \* catch: new Error(`Failed to execute generated code: ${error.message}`)
      message |-> IF st.thrown = "none" THEN << >>
                  ELSE << "Failed to execute generated code: ",
                          IF st.thrown = "value" THEN "undefined" ELSE st.msg >>]

\* ------------------------------------------------------------ text codec
\* A JavaScript string is a sequence of one-character strings; a document
\* is one such sequence with line feeds in it.
LF == "\n"
TAB == "\t"
Digits == << "0", "1", "2", "3", "4", "5", "6", "7", "8", "9" >>

\* `${n}` for a non-negative integer n.
RECURSIVE NatToString(_)
NatToString(n) ==
  IF n < 10 THEN << Digits[n + 1] >>
  ELSE NatToString(n \div 10) \o << Digits[(n % 10) + 1] >>

\* `${n}` for an integer n.
NumberToString(n) ==
  IF n < 0 THEN << "-" >> \o NatToString(0 - n) ELSE NatToString(n)

\* parts.join(sep)
RECURSIVE Join(_, _)
Join(parts, sep) ==
  IF parts = << >> THEN << >>
  ELSE IF Len(parts) = 1 THEN parts[1]
  ELSE parts[1] \o sep \o Join(Tail(parts), sep)

\* content.split('\n'): the pieces between line feeds (one more than the
\* number of line feeds).
SplitLines(s) ==
  LET feeds == {i \in 1..Len(s) : s[i] = LF}
      nth(k) == IF k = 0 THEN 0
                ELSE IF k > Cardinality(feeds) THEN Len(s) + 1
                ELSE CHOOSE i \in feeds :
                       Cardinality({j \in feeds : j <= i}) = k
  IN [k \in 1..(Cardinality(feeds) + 1) |->
        SubSeq(s, nth(k - 1) + 1, nth(k) - 1)]

IsSpace(c) == c \in {" ", TAB, LF, "\r"}

RECURSIVE TrimStart(_)
TrimStart(s) ==
  IF s # << >> /\ IsSpace(Head(s)) THEN TrimStart(Tail(s)) ELSE s

RECURSIVE TrimEnd(_)
TrimEnd(s) ==
  IF s # << >> /\ IsSpace(s[Len(s)]) THEN TrimEnd(SubSeq(s, 1, Len(s) - 1))
  ELSE s

\* line.trim()
TrimLine(s) == TrimEnd(TrimStart(s))

\* s.startsWith(p)
StartsWith(s, p) == Len(p) <= Len(s) /\ SubSeq(s, 1, Len(p)) = p

\* trimmed.split(/\s+/) for a string without leading or trailing space (an
\* empty string gives one empty token).
RECURSIVE SplitSpaces(_, _)
SplitSpaces(s, cur) ==
  IF s = << >> THEN << cur >>
  ELSE IF IsSpace(Head(s))
       THEN << cur >> \o SplitSpaces(TrimStart(s), << >>)
       ELSE SplitSpaces(Tail(s), Append(cur, Head(s)))

\* A JavaScript number as parseInt and parseFloat return it: NaN, or a value.
NaN == [nan |-> TRUE, value |-> 0]
Number(v) == [nan |-> FALSE, value |-> v]

DigitValue(c) == CHOOSE d \in 0..9 : Digits[d + 1] = c

\* Value of the longest run of decimal digits s starts with, read after the
\* digits acc already seen; NaN when there is none.
RECURSIVE LeadingDigits(_, _, _)
LeadingDigits(s, acc, seen) ==
  IF s # << >> /\ Head(s) \in {Digits[k] : k \in 1..10}
  THEN LeadingDigits(Tail(s), acc * 10 + DigitValue(Head(s)), TRUE)
  ELSE IF seen THEN Number(acc) ELSE NaN

\* -v as JavaScript computes it.
Minus(v) == IF v.nan THEN NaN ELSE Number(0 - v.value)

\* parseInt(token): optional sign, then decimal digits; the rest is ignored.
parseInt(tok) ==
  IF tok # << >> /\ Head(tok) = "-"
  THEN Minus(LeadingDigits(Tail(tok), 0, FALSE))
  ELSE IF tok # << >> /\ Head(tok) = "+"
       THEN LeadingDigits(Tail(tok), 0, FALSE)
       ELSE LeadingDigits(tok, 0, FALSE)

\* parseFloat(token), for tokens without a fraction or an exponent: on
\* those it reads what parseInt reads.
parseFloat(tok) == parseInt(tok)

\* ------------------------------------------------- builder object model
DefaultModelName == << "U", "n", "t", "i", "t", "l", "e", "d", " ", "M", "o", "d", "e", "l" >>
DefaultAuthor == << "A", "I", " ", "B", "u", "i", "l", "d", "e", "r" >>
DefaultColor == 16
DatSuffix == << ".", "d", "a", "t" >>
DefaultMatrix == << 1, 0, 0, 0, 1, 0, 0, 0, 1 >>
RotatedY90 == << 0, 0, -1, 0, 1, 0, 1, 0, 0 >>

\* new LDrawBuilder(): impl tells the editor's class ("browser") from the
\* class of module ldrawBuilder ("node"), which has parts only.
NewBuilder(impl) ==
  [impl |-> impl, elements |-> << >>, currentColor |-> DefaultColor,
   modelName |-> DefaultModelName, author |-> DefaultAuthor]

StepElement == [lineType |-> 0, command |-> "STEP"]

IsStep(el) == el.lineType = 0

PartElement(partNum, color, x, y, z, m) ==
  [lineType |-> 1, color |-> color, x |-> x, y |-> y, z |-> z,
   matrix |-> m, partName |-> partNum \o DatSuffix]

\* The addPart calls scripts make here: the first is
\* addPart('3001', 4, 0, -8, -20), the second addPartRotatedY90.
PartCalls ==
  { PartElement(<< "3", "0", "0", "1" >>, 4, 0, -8, -20, DefaultMatrix),
    PartElement(<< "3", "0", "2", "0" >>, 16, 20, 0, 40, RotatedY90) }

addPart(b, el) == [b EXCEPT !.elements = Append(@, el)]

\* Mutation of addStep: the marker is appended unconditionally.
addStep_Always(b) == [b EXCEPT !.elements = Append(@, StepElement)]

addStep(b) ==
  IF b.elements # << >> /\ ~IsStep(b.elements[Len(b.elements)])
  THEN [b EXCEPT !.elements = Append(@, StepElement)]
  ELSE b

clear(b) == [b EXCEPT !.elements = << >>]

setModelName(b, name) == [b EXCEPT !.modelName = name]

\* The value undefined of an argument a call leaves out (no colour code is
\* negative).
Undefined == -1
SetColors == {4, 2}
BrickNum == << "3", "0", "0", "1" >>
PlateNum == << "3", "0", "2", "0" >>
WheelNum == << "3", "6", "4", "1" >>

setColor(b, colorCode) == [b EXCEPT !.currentColor = colorCode]

addBrick(b, partNum, color, x, y, z) ==
  addPart(b, PartElement(partNum, color, x, y, z, DefaultMatrix))

addPlate(b, partNum, color, x, y, z) ==
  addPart(b, PartElement(partNum, color, x, y, z, DefaultMatrix))

\* Mutation of addWheel: the wheel takes the colour last set.
addWheel_CurrentColor(b, partNum, x, y, z) ==
  addPart(b, PartElement(partNum, b.currentColor, x, y, z, DefaultMatrix))

addWheel(b, partNum, x, y, z) ==
  addPart(b, PartElement(partNum, 0, x, y, z, DefaultMatrix))

\* ------------------------------------------------------------ serializer
StepLine == << "0", " ", "S", "T", "E", "P" >>
MinTokens == 15

\* The template literal of a placement line.
\* Mutation: the orientation is written column by column.
PartLine_ColumnMajor(el) ==
  Join(<< << "1" >>, NumberToString(el.color), NumberToString(el.x),
          NumberToString(el.y), NumberToString(el.z) >>
       \o [k \in 1..9 |->
             NumberToString(el.matrix[3 * ((k - 1) % 3) + ((k - 1) \div 3) + 1])]
       \o << el.partName >>, << " " >>)

PartLine(el) ==
  Join(<< << "1" >>, NumberToString(el.color), NumberToString(el.x),
          NumberToString(el.y), NumberToString(el.z) >>
       \o [k \in 1..9 |-> NumberToString(el.matrix[k])]
       \o << el.partName >>, << " " >>)

HeaderLines(b, name) ==
  << << "0", " " >> \o b.modelName,
     << "0", " ", "N", "a", "m", "e", ":", " " >> \o name,
     << "0", " ", "A", "u", "t", "h", "o", "r", ":", " " >> \o b.author,
     << "0", " ", "!", "L", "I", "C", "E", "N", "S", "E", " ", "L", "i",
        "c", "e", "n", "s", "e", "d", " ", "u", "n", "d", "e", "r", " ",
        "C", "C", " ", "B", "Y", " ", "4", ".", "0" >>,
     << >>,
     << "0", " ", "B", "F", "C", " ", "C", "E", "R", "T", "I", "F", "Y",
        " ", "C", "C", "W" >>,
     << >> >>

\* The loop over this.elements of the editor's generateLDraw.
RECURSIVE ElementLines(_)
ElementLines(els) ==
  IF els = << >> THEN << >>
  ELSE (IF IsStep(Head(els)) THEN << StepLine, << >> >>
        ELSE << PartLine(Head(els)) >>) \o ElementLines(Tail(els))

\* "Add final step command if not already present".
\* Mutation: the final step is added whatever the last element is.
FinalStep_Always(els) == << StepLine >>

FinalStep(els) ==
  IF els = << >> \/ ~IsStep(els[Len(els)]) THEN << StepLine >> ELSE << >>

\* Mutation of generateLDraw: the final step is pushed onto this.elements.
generateLDraw_Appending(b) ==
  [self |-> [b EXCEPT !.elements = @ \o FinalStep(@)],
   text |-> Join(HeaderLines(b, << "g", "e", "n", "e", "r", "a", "t", "e",
      "d", ".", "l", "d", "r" >>) \o ElementLines(b.elements)
                 \o FinalStep(b.elements) \o << << >> >>, << LF >>)]

\* generateLDraw() of the editor's LDrawBuilder: the object as the call
\* leaves it, and the string returned.
generateLDraw(b) ==
  [self |-> b,
   text |-> Join(HeaderLines(b, << "g", "e", "n", "e", "r", "a", "t", "e",
      "d", ".", "l", "d", "r" >>) \o ElementLines(b.elements)
                 \o FinalStep(b.elements) \o << << >> >>, << LF >>)]

\* generateLDraw() of module ldrawBuilder, whose list holds parts only.
nodeGenerateLDraw(b) ==
  [self |-> b,
   text |-> Join(HeaderLines(b, << "m", "o", "d", "e", "l", ".", "l", "d",
      "r" >>)
                 \o [k \in 1..Len(b.elements) |-> PartLine(b.elements[k])]
                 \o << StepLine, << >> >>, << LF >>)]

\* getContent() / generateLDraw() of whichever class b was made from.
getContent(b) ==
  IF b.impl = "browser" THEN generateLDraw(b) ELSE nodeGenerateLDraw(b)

\* ---------------------------------------------------------------- parser
\* Mutation of the Y inversion: the value is kept.
Negate_Kept(v) == v

\* -parseFloat(tokens[3]), "Invert Y for Three.js".
Negate(v) == Minus(v)

\* The LDrawPart built from the tokens of a placement line (tokens[0] of the
\* source is tokens[1] here).
ParsePart(tokens) ==
  [color |-> parseInt(tokens[2]),
   position |-> << parseFloat(tokens[3]), Negate(parseFloat(tokens[4])),
                   parseFloat(tokens[5]) >>,
   matrix |-> [k \in 1..9 |-> parseFloat(tokens[5 + k])],
   partName |-> tokens[15]]

\* The body of the loop of parseLDrawFile: the parts one line contributes.
ParseLine(line) ==
  LET trimmed == TrimLine(line)
  IN IF StartsWith(trimmed, << "1", " " >>)
     THEN LET tokens == SplitSpaces(trimmed, << >>)
          IN IF Len(tokens) >= MinTokens THEN << ParsePart(tokens) >>
             ELSE << >>
     ELSE << >>

RECURSIVE ParseLines(_)
ParseLines(lines) ==
  IF lines = << >> THEN << >>
  ELSE ParseLine(Head(lines)) \o ParseLines(Tail(lines))

parseLDrawFile(content) == ParseLines(SplitLines(content))

\* Lines of the files handed to the parser: a placement line, the same
\* line with a tab after the marker, an indented placement line, a
\* placement line with too few fields, a placement line of 16 tokens (a
\* part file name with a space in it), a step directive, a blank line and
\* a line of another type.
FileLines ==
  { << "1", " ", "4", " ", "0", " ", "-", "8", " ", "-", "2", "0", " ",
     "1", " ", "0", " ", "0", " ", "0", " ", "1", " ", "0", " ", "0", " ",
     "0", " ", "1", " ", "3", "0", "0", "1", ".", "d", "a", "t" >>,
    << "1", TAB >> \o << "4", " ", "0", " ", "-", "8", " ", "-", "2", "0",
       " ", "1", " ", "0", " ", "0", " ", "0", " ", "1", " ", "0", " ",
       "0", " ", "0", " ", "1", " ", "3", "0", "0", "1", ".", "d", "a",
       "t" >>,
    << " ", " " >> \o << "1", " ", "1", "6", " ", "2", "0", " ", "0", " ",
       "4", "0", " ", "0", " ", "0", " ", "-", "1", " ", "0", " ", "1",
       " ", "0", " ", "1", " ", "0", " ", "0", " ", "3", "0", "2", "0",
       ".", "d", "a", "t" >>,
    << "1", " ", "4", " ", "0", " ", "0", " ", "0" >>,
    << "1", " ", "2", " ", "0", " ", "0", " ", "0", " ", "1", " ", "0", " ",
       "0", " ", "0", " ", "1", " ", "0", " ", "0", " ", "0", " ", "1", " ",
       "m", "y", " ", "b", ".", "d", "a", "t" >>,
    StepLine,
    << >>,
    << "2", " ", "2", "4", " ", "0", " ", "0", " ", "0", " ", "1", " ",
       "1", " ", "1" >> }

Documents ==
  UNION {{Join(ls, << LF >>) : ls \in [1..n -> FileLines]} : n \in 0..MaxLines}

\* ------------------------------------------------------------------ state
VARIABLES
  host,              \* which program this is: "server", "cli" or "browser"
  isReady,           \* server.ts: parts database loaded
  nodePc,            \* node hosts: "idle", or "generating" (awaiting the AI)
  prompt,            \* node hosts: prompt of the request being served
  Colors,            \* node hosts: the Colors object of module ldrawBuilder
  fs,                \* node hosts: paths of the files that exist on disk
  response,          \* node hosts: the last response sent / result printed
  edPc,              \* browser: "unmounted", "idle", or "blocked"
  code,              \* browser: the editor text (useState code)
  livePreview,       \* browser: useState livePreview
  error,             \* browser: useState error (a message; << >> is '')
  isExecuting,       \* browser: useState isExecuting
  timers,            \* browser: pending timeouts set by the debounce effect
  debounceTimerRef,  \* browser: "null", or "handle" once a timer id is stored
  burst,             \* history: edits made while a debounce timer was pending
  firesSinceArm,     \* history: debounce executions since the timer was armed
  sinceMount,        \* history: executions made since the editor mounted,
                     \* while nothing was edited, toggled or generated
  run,               \* history: the execute call made by the step that led
                     \* here (NoRun when that step executed nothing)
  bld,               \* builder host: the LDrawBuilder object
  text,              \* builder, parser: the document last written or read
  parts,             \* builder, parser: what parseLDrawFile returned last
  cev,               \* history: the builder or parser call of the last step
  page,              \* page: selectedFile, generatedLDrawContent, previewKey
  saves,             \* page: the save requests of handleModelGenerated in flight
  issued,            \* page: handleModelGenerated calls made so far
  view,              \* page: the LDRViewer instance, its loads and its groups
  pev,               \* history: what the last step of the page did
  out                \* output endpoint: the request last handled and its answer

vars ==
  << host, isReady, nodePc, prompt, Colors, fs, response, edPc, code,
     livePreview, error, isExecuting, timers, debounceTimerRef, burst,
     firesSinceArm, sinceMount, run, bld, text, parts, cev, page, saves, issued, view, out,
     pev >>

nodeVars == << isReady, nodePc, prompt, Colors, fs, response >>
edVars ==
  << edPc, code, livePreview, error, isExecuting, timers, debounceTimerRef,
     burst, firesSinceArm, sinceMount >>

coreVars == << host, nodeVars, edVars, run >>
codecVars == << bld, text, parts, cev >>
pageVars == << page, saves, issued, view, pev >>
apiVars == << out >>
extVars == << codecVars, pageVars, apiVars >>

Hosts == {"server", "cli", "browser", "builder", "colours", "parser", "page",
          "api"}

\* Statements that match the denylist and are not the permitted require.
Uncovered(s) == Range(s.body) \cap {"requireOther", "eval"}

NoRun ==
  [trigger |-> "none", preview |-> FALSE,
   validated |-> FALSE, srcValid |-> FALSE, uncovered |-> {},
   executed |-> FALSE, looped |-> FALSE, outcome |-> "none",
   thrown |-> "none", thrownMsg |-> "", message |-> << >>,
   returned |-> FALSE, saved |-> FALSE, calls |-> << >>,
   written |-> {}, outputDir |-> << >>,
   document |-> NoDocument, pristine |-> NoDocument,
   ranLatest |-> TRUE, burst |-> 0]

NoResponse == [status |-> 0, success |-> FALSE, message |-> << >>]

\* What the ghost fields of run say about the source that was handed over.
AboutSource(s, trig) ==
  [NoRun EXCEPT !.trigger = trig, !.srcValid = validateCode(s),
                !.uncovered = Uncovered(s),
                !.looped = "loop" \in Range(s.body)]

\* ------------------------------------------------------------- node hosts
\* database.loadParts(...).then(() => { isReady = true })
SrvReady ==
  /\ host = "server" /\ ~isReady
  /\ isReady' = TRUE
  /\ run' = NoRun
  /\ UNCHANGED << extVars, host, nodePc, prompt, Colors, fs, response, edVars >>

\* app.post('/api/build'), up to the await of generateBuildingCode
SrvBuildRequest(p) ==
  /\ host = "server" /\ nodePc = "idle"
  /\ IF ~isReady
     THEN /\ response' = [status |-> 503, success |-> FALSE,
                          message |-> << "Service is still initializing" >>]
          /\ UNCHANGED << nodePc, prompt >>
     ELSE IF Len(Trim(p)) = 0
     THEN /\ response' = [status |-> 400, success |-> FALSE,
                          message |-> << "Prompt is required" >>]
          /\ UNCHANGED << nodePc, prompt >>
     ELSE /\ nodePc' = "generating"
          /\ prompt' = p
          /\ UNCHANGED response
  /\ run' = NoRun
  /\ UNCHANGED << extVars, host, isReady, Colors, fs, edVars >>

\* runInteractive: answer.trim() non-empty => buildFromPrompt(answer.trim())
CliAnswer(p) ==
  /\ host = "cli" /\ nodePc = "idle"
  /\ Len(Trim(p)) > 0
  /\ nodePc' = "generating"
  /\ prompt' = Trim(p)
  /\ run' = NoRun
  /\ UNCHANGED << extVars, host, isReady, Colors, fs, response, edVars >>

\* The part both node hosts share once the AI has returned `s`:
\* validateCode, then executeGeneratedCode, then the response.
Pipeline(s) ==
  IF ~validateCode(s)
  THEN /\ run' = [AboutSource(s, "build") EXCEPT
                    !.outcome = "rejected",
                    !.message = << "Generated code failed validation" >>]
       /\ response' = [status |-> 500, success |-> FALSE,
                       message |-> << "Generated code failed validation" >>]
       /\ UNCHANGED << Colors, fs >>
  ELSE LET dir == OutputDirOf(host)
           r == executeGeneratedCode(s, dir, ModelName(prompt), Colors, fs)
           clean == executeGeneratedCode(s, dir, ModelName(prompt),
                                         ColorTable, {})
       IN /\ Colors' = r.colors
          /\ fs' = r.files
          /\ run' = [AboutSource(s, "build") EXCEPT
                       !.validated = TRUE, !.executed = TRUE,
                       !.outcome = r.outcome,
                       !.thrown = r.thrown,
                       !.thrownMsg = r.thrownMsg,
                       !.message = r.message,
                       !.saved = (r.written # {}),
                       !.written = r.written, !.outputDir = dir,
                       !.document = r.document,
                       !.pristine = clean.document]
          /\ response' = IF r.outcome = "completed"
                         THEN [status |-> 200, success |-> TRUE,
                               message |-> << >>]
                         ELSE [status |-> 500, success |-> FALSE,
                               message |-> r.message]

AIReturns(s) ==
  /\ host \in {"server", "cli"} /\ nodePc = "generating"
  /\ Pipeline(s)
  /\ nodePc' = "idle"
  /\ UNCHANGED << extVars, host, isReady, prompt, edVars >>

\* generateBuildingCode throws: the handler's catch answers 500
AIFails ==
  /\ host \in {"server", "cli"} /\ nodePc = "generating"
  /\ response' = [status |-> 500, success |-> FALSE,
                  message |-> << "Failed to generate building code" >>]
  /\ nodePc' = "idle"
  /\ run' = NoRun
  /\ UNCHANGED << extVars, host, isReady, prompt, Colors, fs, edVars >>

\* ---------------------------------------------------------- browser host
filename == "my_model"
SanitizedFilename == IF filename = "" THEN "generated_model" ELSE filename

\* The default program of the editor: places parts, calls builder.save()
\* and returns builder.getContent().
InitialCode == [builder |-> TRUE, body |-> << "addPart", "save", "return" >>]

EditorScripts == [builder : {TRUE}, body : Bodies(BrowserOps)] \cup {InitialCode}

\* The texts one change of the textarea away from `c`: a statement typed at
\* the end, or the last statement deleted.
Changes(c) ==
  {[c EXCEPT !.body = Append(@, op)] : op \in BrowserOps}
    \cup (IF c.body = << >> THEN {}
          ELSE {[c EXCEPT !.body = SubSeq(@, 1, Len(@) - 1)]})

\* LDrawBuilder.save(saveFilename) of createLDrawBuilderClass(isLivePreview):
\* the onModelGenerated call it makes.
\* Mutation of save: the preview class saves under the chosen name too.
BuilderSave_Named(content, saveFilename, isLivePreview) ==
  [content |-> content,
   filename |-> IF saveFilename # "" THEN saveFilename ELSE filename,
   isPreview |-> FALSE, via |-> "save"]

BuilderSave(content, saveFilename, isLivePreview) ==
  LET finalFilename == IF saveFilename # "" THEN saveFilename
                       ELSE IF filename # "" THEN filename
                       ELSE "generated_model"
  IN IF ~isLivePreview
     THEN [content |-> content, filename |-> finalFilename,
           isPreview |-> FALSE, via |-> "save"]
     ELSE [content |-> content, filename |-> "preview_temp",
           isPreview |-> TRUE, via |-> "save"]

\* One statement of func(LDrawBuilder, Colors); Colors is the literal built
\* by this very call of executeCode.
BrowserStep(op, st, isLivePreview) ==
  CASE op = "addPart" -> [st EXCEPT !.parts = Append(@, ColorTable["RED"])]
    [] op = "save" ->
         [st EXCEPT !.saved = TRUE,
                    !.calls = Append(@, BuilderSave(st.parts, "", isLivePreview))]
    [] op = "saveAs" ->
         [st EXCEPT !.saved = TRUE,
                    !.calls = Append(@, BuilderSave(st.parts, "custom",
                                                    isLivePreview))]
    [] op = "return" -> [st EXCEPT !.end = "returned", !.result = st.parts]
    [] op = "eval" -> st
    [] op = "throwError" ->
         [st EXCEPT !.end = "thrown", !.thrown = "Error", !.msg = "boom"]
    [] op = "throwValue" ->
         [st EXCEPT !.end = "thrown", !.thrown = "value", !.msg = "boom"]
    [] op = "loop" -> [st EXCEPT !.end = "loop"]
    [] OTHER ->
         [st EXCEPT !.end = "thrown", !.thrown = "Error",
                    !.msg = "not a function"]

RECURSIVE BrowserSteps(_, _, _)
BrowserSteps(ops, st, isLivePreview) ==
  IF ops = << >> \/ st.end # "running" THEN st
  ELSE BrowserSteps(Tail(ops), BrowserStep(Head(ops), st, isLivePreview),
                    isLivePreview)

\* const result = func(LDrawBuilder, Colors)
Func(s, isLivePreview) ==
  BrowserSteps(s.body,
               [parts |-> << >>, calls |-> << >>, saved |-> FALSE,
                end |-> "running", result |-> NoDocument,
                thrown |-> "none", msg |-> ""],
               isLivePreview)

\* The if / else-if chain on `result` after func returned.
AfterFunc(r, isLivePreview) ==
  IF r.end = "returned"
  THEN IF isLivePreview
       THEN Append(r.calls, [content |-> r.result, filename |-> "preview_temp",
                             isPreview |-> TRUE, via |-> "return"])
       ELSE Append(r.calls, [content |-> r.result,
                             filename |-> SanitizedFilename,
                             isPreview |-> FALSE, via |-> "return"])
  ELSE r.calls

CaughtMessage_Generic(r) == << "Unknown error occurred" >>

\* catch (err): err instanceof Error ? err.message : 'Unknown error occurred'
CaughtMessage(r) ==
  IF r.thrown = "Error" THEN << r.msg >> ELSE << "Unknown error occurred" >>

\* executeCode(isLivePreview) applied to the text `s` its closure holds.
\* A script that loops never returns: nothing after func(...) runs.
executeCode(s, isLivePreview, trig, latest, edits) ==
  LET r == Func(s, isLivePreview)
      base == [AboutSource(s, trig) EXCEPT
                 !.preview = isLivePreview, !.executed = TRUE,
                 !.saved = r.saved, !.ranLatest = latest, !.burst = edits]
  IN CASE r.end = "loop" ->
            /\ edPc' = "blocked"
            /\ error' = << >>
            /\ isExecuting' = ~isLivePreview
            /\ run' = [base EXCEPT !.outcome = "running", !.calls = r.calls]
       [] r.end = "thrown" ->
            /\ edPc' = "idle"
            /\ error' = CaughtMessage(r)
            /\ isExecuting' = IF isLivePreview THEN isExecuting ELSE FALSE
            /\ run' = [base EXCEPT !.outcome = "errored", !.calls = r.calls,
                                   !.thrown = r.thrown, !.thrownMsg = r.msg,
                                   !.message = CaughtMessage(r)]
       [] OTHER ->
            /\ edPc' = "idle"
            /\ error' = << >>
            /\ isExecuting' = IF isLivePreview THEN isExecuting ELSE FALSE
            /\ run' = [base EXCEPT !.outcome = "completed",
                                   !.returned = (r.end = "returned"),
                                   !.calls = AfterFunc(r, isLivePreview),
                                   !.document = r.result,
                                   !.pristine = r.result]

ClearRef_Forgotten(ts, ref) == ts

\* clearTimeout(debounceTimerRef.current), guarded by the ref being set
ClearRef(ts, ref) ==
  IF ref = "null" THEN ts ELSE {t \in ts : t.handle # "ref"}

\* Body of the debounce effect for a render with (lp, c): nothing when live
\* preview is off, else clear the previous timer and arm a new one whose
\* callback closes over c.
DebounceEffect(lp, c, ts, ref) ==
  IF ~lp THEN ts
  ELSE {[t EXCEPT !.handle = "other"] : t \in ClearRef(ts, ref)}
         \cup {[code |-> c, handle |-> "ref"]}

\* Mutation of the cleanup of the debounce effect: it clears nothing.
Cleanup_Missing(prevLp, ts, ref) == ts

\* The cleanup the debounce effect returned when it last ran: there is one
\* only if live preview was on.
Cleanup(prevLp, ts, ref) == IF prevLp THEN ClearRef(ts, ref) ELSE ts

Untouched == [touched |-> FALSE, runs |-> 0]
Touched == [touched |-> TRUE, runs |-> 0]

\* A render in which code or livePreview changed: the cleanup returned by
\* the previous run of the effect (there is one only if live preview was on),
\* then the effect body.
EffectRerun(prevLp, lp, c) ==
  LET afterCleanup == Cleanup(prevLp, timers, debounceTimerRef)
  IN /\ timers' = DebounceEffect(lp, c, afterCleanup, debounceTimerRef)
     /\ debounceTimerRef' = IF lp THEN "handle" ELSE debounceTimerRef

Min(a, b) == IF a < b THEN a ELSE b

\* First render: the debounce effect, then the mount effect.
Mount ==
  /\ host = "browser" /\ edPc = "unmounted"
  /\ EffectRerun(FALSE, livePreview, code)
  /\ IF livePreview
     THEN executeCode(code, TRUE, "mount", TRUE, 0)
     ELSE /\ edPc' = "idle"
          /\ run' = NoRun
          /\ UNCHANGED << error, isExecuting >>
  /\ burst' = 0
  /\ firesSinceArm' = 0
  /\ sinceMount' = [Untouched EXCEPT !.runs = IF livePreview THEN 1 ELSE 0]
  /\ UNCHANGED << extVars, host, nodeVars, code, livePreview >>

\* onChange of the textarea: setCode(c)
Edit(c) ==
  /\ host = "browser" /\ edPc = "idle"
  /\ c \in EditorScripts
  /\ code' = c
  /\ EffectRerun(livePreview, livePreview, c)
  /\ burst' = IF ~livePreview THEN 0
              ELSE IF timers # {} THEN Min(burst + 1, MaxBurst)
              ELSE 1
  /\ firesSinceArm' = 0
  /\ sinceMount' = Touched
  /\ run' = NoRun
  /\ UNCHANGED << extVars, host, nodeVars, edPc, livePreview, error, isExecuting >>

\* onChange of the live preview checkbox
ToggleLivePreview ==
  /\ host = "browser" /\ edPc = "idle"
  /\ livePreview' = ~livePreview
  /\ EffectRerun(livePreview, ~livePreview, code)
  /\ burst' = 0
  /\ firesSinceArm' = 0
  /\ sinceMount' = Touched
  /\ run' = NoRun
  /\ UNCHANGED << extVars, host, nodeVars, edPc, code, error, isExecuting >>

\* The editor is taken off the page: the cleanup of the debounce effect
\* runs; the state and the refs of the component are gone.
Unmount_Editor ==
  /\ host = "browser" /\ edPc = "idle"
  /\ timers' = Cleanup(livePreview, timers, debounceTimerRef)
  /\ edPc' = "unmounted"
  /\ code' = InitialCode
  /\ livePreview' = TRUE
  /\ error' = << >>
  /\ isExecuting' = FALSE
  /\ debounceTimerRef' = "null"
  /\ burst' = 0
  /\ firesSinceArm' = 0
  /\ sinceMount' = Untouched
  /\ run' = NoRun
  /\ UNCHANGED << extVars, host, nodeVars >>

\* A pending timeout elapses: its callback runs executeCode(true)
TimerFires(t) ==
  /\ host = "browser" /\ edPc = "idle"
  /\ t \in timers
  /\ timers' = timers \ {t}
  /\ executeCode(t.code, TRUE, "debounce", t.code = code, burst)
  /\ burst' = 0
  /\ firesSinceArm' = Min(firesSinceArm + 1, 2)
  /\ sinceMount' = IF sinceMount.touched THEN sinceMount
                   ELSE [sinceMount EXCEPT !.runs = Min(@ + 1, 2)]
  /\ UNCHANGED << extVars, host, nodeVars, code, livePreview, debounceTimerRef >>

\* onClick of the Generate button (disabled while executing or previewing)
Generate ==
  /\ host = "browser" /\ edPc = "idle"
  /\ ~isExecuting /\ ~livePreview
  /\ executeCode(code, FALSE, "manual", TRUE, 0)
  /\ sinceMount' = Touched
  /\ UNCHANGED << extVars, host, nodeVars, code, livePreview, timers,
                  debounceTimerRef, burst, firesSinceArm >>

\* --------------------------------------------- builder and parser hosts
NoText == << >>
ModelNames == {<< "C", "a", "r" >>}
NoCodecEvent == [op |-> "none", before |-> NewBuilder("browser"),
                 prevText |-> NoText]

\* builder.addPart(...) and its shorthands.
BldAddPart(el) ==
  /\ host = "builder"
  /\ Len(bld.elements) < MaxElements
  /\ bld' = addPart(bld, el)
  /\ text' = NoText
  /\ parts' = << >>
  /\ cev' = [op |-> "addPart", before |-> bld, prevText |-> NoText]
  /\ UNCHANGED << coreVars, apiVars, pageVars >>

\* builder.addStep(), a method of the editor's class only.
BldAddStep ==
  /\ host = "builder"
  /\ bld.impl = "browser"
  /\ Len(addStep(bld).elements) <= MaxElements
  /\ bld' = addStep(bld)
  /\ text' = NoText
  /\ parts' = << >>
  /\ cev' = [op |-> "addStep", before |-> bld, prevText |-> NoText]
  /\ UNCHANGED << coreVars, apiVars, pageVars >>

\* builder.clear()
BldClear ==
  /\ host = "builder"
  /\ bld' = clear(bld)
  /\ text' = NoText
  /\ parts' = << >>
  /\ cev' = [op |-> "clear", before |-> bld, prevText |-> NoText]
  /\ UNCHANGED << coreVars, apiVars, pageVars >>

\* builder.setModelName(name)
BldSetModelName(name) ==
  /\ host = "builder"
  /\ bld.modelName # name
  /\ bld' = setModelName(bld, name)
  /\ text' = NoText
  /\ parts' = << >>
  /\ cev' = [op |-> "setModelName", before |-> bld, prevText |-> NoText]
  /\ UNCHANGED << coreVars, apiVars, pageVars >>

\* builder.setColor(colorCode) in a script that places with the
\* convenience calls.
BldSetColor(c) ==
  /\ host = "colours"
  /\ bld.currentColor # c
  /\ bld' = setColor(bld, c)
  /\ text' = NoText
  /\ parts' = << >>
  /\ cev' = [op |-> "setColor", before |-> bld, prevText |-> NoText]
  /\ UNCHANGED << coreVars, apiVars, pageVars >>

\* builder.addBrick('3001', color, 0, 0, 0); color is Undefined when the call
\* leaves the colour to the default.
BldAddBrick(color) ==
  /\ host = "colours"
  /\ Len(bld.elements) < MaxElements
  /\ bld' = addBrick(bld, BrickNum, color, 0, 0, 0)
  /\ text' = NoText
  /\ parts' = << >>
  /\ cev' = [op |-> IF color = Undefined THEN "addBrickDefault"
                    ELSE "addBrick",
             before |-> bld, prevText |-> NoText]
  /\ UNCHANGED << coreVars, apiVars, pageVars >>

\* builder.addPlate('3020', undefined, 0, -8, 0)
BldAddPlate ==
  /\ host = "colours"
  /\ Len(bld.elements) < MaxElements
  /\ bld' = addPlate(bld, PlateNum, Undefined, 0, -8, 0)
  /\ text' = NoText
  /\ parts' = << >>
  /\ cev' = [op |-> "addPlateDefault", before |-> bld, prevText |-> NoText]
  /\ UNCHANGED << coreVars, apiVars, pageVars >>

\* builder.addWheel('3641', 20, 0, 0)
BldAddWheel ==
  /\ host = "colours"
  /\ Len(bld.elements) < MaxElements
  /\ bld' = addWheel(bld, WheelNum, 20, 0, 0)
  /\ text' = NoText
  /\ parts' = << >>
  /\ cev' = [op |-> "addWheel", before |-> bld, prevText |-> NoText]
  /\ UNCHANGED << coreVars, apiVars, pageVars >>

\* builder.getContent(); prevText is what the previous step returned when
\* that step was a getContent() too.
BldGetContent ==
  /\ host = "builder"
  /\ LET r == getContent(bld)
     IN /\ bld' = r.self
        /\ text' = r.text
  /\ parts' = << >>
  /\ cev' = [op |-> "generate", before |-> bld,
             prevText |-> IF cev.op = "generate" THEN text ELSE NoText]
  /\ UNCHANGED << coreVars, apiVars, pageVars >>

\* The document just serialized is read back: parseLDrawFile(content).
BldParse ==
  /\ host = "builder"
  /\ cev.op = "generate"
  /\ parts' = parseLDrawFile(text)
  /\ cev' = [op |-> "parse", before |-> bld, prevText |-> NoText]
  /\ UNCHANGED << coreVars, apiVars, pageVars, bld, text >>

\* parseLDrawFile(content) on the content of a file.
ParseFile(d) ==
  /\ host = "parser"
  /\ text' = d
  /\ parts' = parseLDrawFile(d)
  /\ cev' = [op |-> "parseFile", before |-> bld, prevText |-> NoText]
  /\ UNCHANGED << coreVars, apiVars, pageVars, bld >>

\* ------------------------------------------------- page and LDRViewer
\* A path of the page is the file name and the ?t= stamp (0 when there is
\* none); a content is the first 100 characters of the text (head) and the
\* rest (body).  Field gen of either is a ghost: the number of the
\* handleModelGenerated call it comes from (0 for the file listing).
NoPath == [name |-> "", t |-> 0, gen |-> 0]
NoContent == [head |-> "", body |-> "", gen |-> 0]
NoGroup == 0
ListedFile == "car"
PreviewName == "preview_temp"
SaveNames == {"my_model", "tower"}
ContentHead == "0 Untitled Model"
ContentBodies == {"brick", "plate"}
MaxLoads == MaxRequests + 1

\* The props the page hands to LDRViewer: modelPath and ldrawContent.
PropsOf(pg) ==
  [modelPath |-> << pg.selectedFile.name, pg.selectedFile.t >>,
   ldrawContent |-> << pg.generatedLDrawContent.head,
                       pg.generatedLDrawContent.body >>]

\* (selectedFile || generatedLDrawContent) && !loading && !error
ViewerRendered(pg) ==
  pg.loaded /\ (pg.selectedFile # NoPath \/ pg.generatedLDrawContent # NoContent)

\* The request whose result the page shows.
ShownGen(pg) ==
  IF pg.generatedLDrawContent # NoContent THEN pg.generatedLDrawContent.gen
  ELSE pg.selectedFile.gen

\* currentIdentifier of the loading effect.
currentIdentifier(pg) ==
  IF pg.generatedLDrawContent # NoContent
  THEN << "content", pg.generatedLDrawContent.head >>
  ELSE << "path", pg.selectedFile.name, pg.selectedFile.t >>

NoIdentifier == << >>

\* The refs of a viewer instance that has just mounted.
FreshRefs ==
  [modelGroupRef |-> NoGroup, isLoadingRef |-> FALSE,
   currentModelPathRef |-> NoIdentifier]

\* The viewer and what it has set going: the refs of the mounted instance,
\* the loads in flight, the groups in a scene, the groups marked invisible,
\* the queue of setTimeout(0) callbacks and how often each group was
\* disposed.
NoView ==
  [refs |-> FreshRefs, loads |-> {}, loadSeq |-> 0, scene |-> {},
   hidden |-> {}, timeouts |-> << >>,
   disposed |-> [g \in 1..MaxLoads |-> 0]]

\* Mutation of the three early returns: the effect never skips.
SkipLoad_Never(refs, id) == FALSE

\* The three early returns of the loading effect.
SkipLoad(refs, id) ==
  \/ refs.currentModelPathRef = id /\ refs.isLoadingRef
  \/ refs.currentModelPathRef = id /\ refs.modelGroupRef # NoGroup
  \/ refs.isLoadingRef

\* setTimeout(() => { remove and dispose modelToRemove }, 0)
ScheduleRemoval(q, g) == Append(q, g)

\* Mutation of the clean-up: the outgoing group is not marked invisible.
CleanUpPrevious_StillVisible(w) ==
  IF w.refs.modelGroupRef = NoGroup THEN w
  ELSE [w EXCEPT !.timeouts = ScheduleRemoval(@, w.refs.modelGroupRef),
                 !.refs.modelGroupRef = NoGroup]

\* "Clean up previous model safely".
CleanUpPrevious(w) ==
  IF w.refs.modelGroupRef = NoGroup THEN w
  ELSE [w EXCEPT !.hidden = @ \cup {w.refs.modelGroupRef},
                 !.timeouts = ScheduleRemoval(@, w.refs.modelGroupRef),
                 !.refs.modelGroupRef = NoGroup]

\* The body of the loading effect for the props of page pg, in the viewer
\* instance whose key is pg.previewKey.
LoadEffect(w, pg) ==
  LET id == currentIdentifier(pg)
  IN IF SkipLoad(w.refs, id) THEN w
     ELSE LET w1 == CleanUpPrevious(w)
          IN [w1 EXCEPT
                !.refs.isLoadingRef = TRUE,
                !.refs.currentModelPathRef = id,
                !.loadSeq = @ + 1,
                !.loads = @ \cup
                  {[id |-> w.loadSeq + 1, identity |-> id,
                    cancelled |-> FALSE, prev |-> w.refs.modelGroupRef,
                    inst |-> pg.previewKey]}]

\* The cleanup of the loading effect: cancelled = true in the closure of the
\* run that started a load.
CancelLoads(w) ==
  [w EXCEPT !.loads = {[l EXCEPT !.cancelled = TRUE] : l \in @}]

\* The viewer unmounts: the cleanup of the loading effect, then "Clean up
\* model when component unmounts".
Unmount(w) ==
  LET w1 == CancelLoads(w)
      g == w1.refs.modelGroupRef
  IN [w1 EXCEPT !.hidden = IF g = NoGroup THEN @ ELSE @ \cup {g},
                !.scene = @ \ {g},
                !.refs = FreshRefs]

\* What a render of the page does to the viewer: old is the page before
\* the update, new the page after it.
Rerender(w, old, new) ==
  IF ~ViewerRendered(new)
  THEN IF ViewerRendered(old) THEN Unmount(w) ELSE w
  ELSE IF ~ViewerRendered(old) THEN LoadEffect(w, new)
  ELSE IF old.previewKey # new.previewKey
       THEN LoadEffect(Unmount(w), new)
  ELSE IF PropsOf(old) = PropsOf(new) THEN w
  ELSE LoadEffect(CancelLoads(w), new)

\* The loading effect ran its body (the props or the key changed).
EffectRan(old, new) ==
  /\ ViewerRendered(new)
  /\ \/ ~ViewerRendered(old)
     \/ old.previewKey # new.previewKey
     \/ PropsOf(old) # PropsOf(new)

NoPageEvent ==
  [op |-> "none", gen |-> 0, shownGen |-> 0, changed |-> FALSE, ran |-> FALSE,
   identity |-> NoIdentifier, sameInFlight |-> FALSE, started |-> FALSE,
   swapped |-> NoGroup, prev |-> NoGroup, group |-> NoGroup,
   wasDisplayed |-> FALSE, contentChanged |-> FALSE,
   skippedAsSame |-> FALSE, inst |-> 0]

\* What the ghost fields say about the render that took page old to new
\* and the viewer from w to w2.
AboutRender(op, gen, w, w2, old, new) ==
  [NoPageEvent EXCEPT
     !.op = op, !.gen = gen, !.shownGen = ShownGen(old),
     !.changed = (PropsOf(old) # PropsOf(new)
                  \/ old.previewKey # new.previewKey
                  \/ ViewerRendered(old) # ViewerRendered(new)),
     !.ran = EffectRan(old, new),
     !.identity = IF EffectRan(old, new) THEN currentIdentifier(new)
                  ELSE NoIdentifier,
     !.sameInFlight =
        /\ EffectRan(old, new)
        /\ old.previewKey = new.previewKey
        /\ \E l \in w.loads : /\ l.inst = new.previewKey
                              /\ l.identity = currentIdentifier(new),
     !.started = w2.loadSeq # w.loadSeq,
     !.contentChanged =
        /\ EffectRan(old, new)
        /\ old.previewKey = new.previewKey
        /\ old.generatedLDrawContent # NoContent
        /\ new.generatedLDrawContent # NoContent
        /\ PropsOf(old).ldrawContent # PropsOf(new).ldrawContent,
     !.skippedAsSame =
        /\ EffectRan(old, new)
        /\ old.previewKey = new.previewKey
        /\ w.refs.currentModelPathRef = currentIdentifier(new)
        /\ (w.refs.isLoadingRef \/ w.refs.modelGroupRef # NoGroup),
     !.swapped = IF w2.loadSeq # w.loadSeq /\ old.previewKey = new.previewKey
                 THEN w.refs.modelGroupRef ELSE NoGroup]

\* modelFilename of handleModelGenerated, without its .ldr suffix.
modelFilename(name, isPreview) == IF isPreview THEN PreviewName ELSE name

\* Date.now() when a response is handled: later for each response.
Now == (issued - Cardinality(saves)) + 1

\* useEffect(() => { fetchLDRFiles() }, []): the listing arrives and its
\* first file is selected.
PageLoaded ==
  /\ host = "page"
  /\ ~page.loaded
  /\ LET new == [page EXCEPT
                   !.loaded = TRUE,
                   !.selectedFile = [name |-> ListedFile, t |-> 0, gen |-> 0]]
         w2 == Rerender(view, page, new)
     IN /\ page' = new
        /\ view' = w2
        /\ pev' = AboutRender("listed", 0, view, w2, page, new)
  /\ UNCHANGED << coreVars, apiVars, codecVars, saves, issued >>

\* handleModelGenerated(ldrawContent, filename, isPreview) up to its fetch.
ModelGenerated(body, isPreview, name) ==
  /\ host = "page"
  /\ page.loaded
  /\ issued < MaxRequests
  /\ issued' = issued + 1
  /\ saves' = saves \cup
       {[gen |-> issued + 1,
         content |-> [head |-> ContentHead, body |-> body,
                      gen |-> issued + 1],
         isPreview |-> isPreview,
         name |-> modelFilename(name, isPreview)]}
  /\ pev' = [NoPageEvent EXCEPT !.op = "issued", !.gen = issued + 1,
                                !.shownGen = ShownGen(page)]
  /\ UNCHANGED << coreVars, apiVars, codecVars, page, view >>

\* The page after the continuation of handleModelGenerated for request r.
\* The state updates of the continuation are rendered together; the file
\* that fetchLDRFiles selects on the way is overwritten before a render.
AfterSave(pg, r, ok, now) ==
  IF ~ok
  THEN [pg EXCEPT !.generatedLDrawContent = r.content,
                  !.selectedFile = NoPath]
  ELSE IF r.isPreview
  THEN [pg EXCEPT !.selectedFile = [name |-> r.name, t |-> now,
                                    gen |-> r.gen],
                  !.generatedLDrawContent = NoContent,
                  !.previewKey = @ + 1]
  ELSE [pg EXCEPT !.selectedFile = [name |-> r.name, t |-> 0, gen |-> r.gen],
                  !.generatedLDrawContent = NoContent]

\* The response to the fetch of request r arrives (ok), or the fetch fails.
SaveResponds(r, ok) ==
  /\ host = "page"
  /\ r \in saves
  /\ saves' = saves \ {r}
  /\ LET new == AfterSave(page, r, ok, Now)
         w2 == Rerender(view, page, new)
     IN /\ page' = new
        /\ view' = w2
        /\ pev' = AboutRender(IF ok THEN "saveApplied" ELSE "saveFallback",
                              r.gen, view, w2, page, new)
  /\ UNCHANGED << coreVars, apiVars, codecVars, issued >>

\* The promise of load l settles: .then((group) => ...) or .catch(...).
LoadSettles(l, ok) ==
  /\ host = "page"
  /\ l \in view.loads
  /\ LET w1 == [view EXCEPT !.loads = @ \ {l}]
     IN IF l.cancelled
        THEN /\ view' = w1
             /\ pev' = [NoPageEvent EXCEPT !.op = "loadDiscarded",
                                           !.group = l.id, !.inst = l.inst]
        ELSE IF ok
        THEN /\ view' = [w1 EXCEPT !.refs.isLoadingRef = FALSE,
                                   !.refs.modelGroupRef = l.id,
                                   !.scene = @ \cup {l.id},
                                   !.hidden = @ \ {l.id}]
             /\ pev' = [NoPageEvent EXCEPT !.op = "loadApplied", !.inst = l.inst,
                                           !.group = l.id, !.prev = l.prev]
        ELSE /\ view' = [w1 EXCEPT !.refs.isLoadingRef = FALSE]
             /\ pev' = [NoPageEvent EXCEPT !.op = "loadFailed", !.inst = l.inst,
                                           !.group = l.id, !.prev = l.prev]
  /\ UNCHANGED << coreVars, apiVars, codecVars, page, saves, issued >>

\* The first queued setTimeout(0) callback runs: the group is removed from
\* the scene and its geometries and materials are disposed.
RemovalRuns ==
  /\ host = "page"
  /\ view.timeouts # << >>
  /\ LET g == Head(view.timeouts)
     IN /\ view' = [view EXCEPT !.timeouts = Tail(@),
                                !.scene = @ \ {g},
                                !.disposed[g] = @ + 1]
        /\ pev' = [NoPageEvent EXCEPT
                     !.op = "disposed", !.group = g,
                     !.wasDisplayed = (view.refs.modelGroupRef = g)]
  /\ UNCHANGED << coreVars, apiVars, codecVars, page, saves, issued >>

\* ---------------------------------------------------------- specification
\* ------------------------------------------------- output file endpoint
\* A path is the sequence of its segments; a segment is a sequence of
\* characters.  process.cwd() is /app here.
Cwd == << << "a", "p", "p" >> >>
OutputName == << "o", "u", "t", "p", "u", "t" >>
SiblingName == OutputName \o << "_", "o", "l", "d" >>
FileName == << "a", ".", "l", "d", "r" >>
DotDot == << ".", "." >>
Slash == << "/" >>

\* The files on disk: one in the output directory, one in a sibling
\* directory and one in the working directory.
DiskFiles ==
  { Cwd \o << OutputName, FileName >>,
    Cwd \o << SiblingName, FileName >>,
    Cwd \o << FileName >> }
DiskDirs == { << >>, Cwd, Cwd \o << OutputName >>, Cwd \o << SiblingName >> }

\* req.query.path of the catch-all route: one segment or more.
RequestSegments == {DotDot, OutputName, SiblingName, FileName}
RequestPaths == UNION {[1..n -> RequestSegments] : n \in 1..MaxSegments}

\* The segments of a path once '..' segments are resolved, as path.join and
\* path.normalize resolve them.
RECURSIVE Resolve(_, _)
Resolve(stack, segs) ==
  IF segs = << >> THEN stack
  ELSE IF Head(segs) = DotDot
  THEN Resolve(IF stack = << >> THEN << >>
               ELSE SubSeq(stack, 1, Len(stack) - 1), Tail(segs))
  ELSE Resolve(Append(stack, Head(segs)), Tail(segs))

\* The string of an absolute path.
PathString(segs) == Slash \o Join(segs, Slash)

\* path.join(process.cwd(), 'output', fileName), as segments.
FullPath(filePath) == Resolve(<< >>, Cwd \o << OutputName >> \o filePath)

\* path.join(process.cwd(), 'output')
OutputDir == Resolve(<< >>, Cwd \o << OutputName >>)

\* Mutation of the security check: nothing is refused.
Escapes_Never(filePath) == FALSE

\* !normalizedPath.startsWith(outputDir), on the strings.
Escapes(filePath) ==
  ~StartsWith(PathString(FullPath(filePath)), PathString(OutputDir))

NoFile == << << >> >>
NoAnswer == [path |-> << >>, status |-> 0, read |-> NoFile]

\* The answer of handler to a request for filePath: the status and the
\* file read with readFileSync (NoFile when none is read).
Answer(filePath) ==
  IF Escapes(filePath) THEN [path |-> filePath, status |-> 403, read |-> NoFile]
  ELSE IF FullPath(filePath) \notin DiskFiles \cup DiskDirs
  THEN [path |-> filePath, status |-> 404, read |-> NoFile]
  ELSE IF FullPath(filePath) \in DiskDirs
  THEN [path |-> filePath, status |-> 500, read |-> NoFile]
  ELSE [path |-> filePath, status |-> 200, read |-> FullPath(filePath)]

\* GET /api/output/<filePath>
Handler(filePath) ==
  /\ host = "api"
  /\ out' = Answer(filePath)
  /\ UNCHANGED << coreVars, codecVars, pageVars >>

Init ==
  /\ host \in Hosts
  /\ isReady = FALSE
  /\ nodePc = "idle"
  /\ prompt = << >>
  /\ Colors = ColorTable
  /\ fs = {}
  /\ response = NoResponse
  /\ edPc = "unmounted"
  /\ code = InitialCode
  /\ livePreview = TRUE
  /\ error = << >>
  /\ isExecuting = FALSE
  /\ timers = {}
  /\ debounceTimerRef = "null"
  /\ burst = 0
  /\ firesSinceArm = 0
  /\ sinceMount = Untouched
  /\ run = NoRun
  /\ bld \in IF host \in {"builder", "colours"}
              THEN {NewBuilder("browser"), NewBuilder("node")}
              ELSE {NewBuilder("browser")}
  /\ text = NoText
  /\ parts = << >>
  /\ cev = NoCodecEvent
  /\ page = [loaded |-> FALSE, selectedFile |-> NoPath,
             generatedLDrawContent |-> NoContent, previewKey |-> 0]
  /\ saves = {}
  /\ issued = 0
  /\ view = NoView
  /\ pev = NoPageEvent
  /\ out = NoAnswer

Next ==
  \/ SrvReady
  \/ \E p \in Prompts : SrvBuildRequest(p)
  \/ \E p \in Prompts : CliAnswer(p)
  \/ \E s \in NodeScripts : AIReturns(s)
  \/ AIFails
  \/ Mount
  \/ \E c \in Changes(code) : Edit(c)
  \/ ToggleLivePreview
  \/ \E t \in timers : TimerFires(t)
  \/ Generate
  \/ Unmount_Editor
  \/ \E el \in PartCalls : BldAddPart(el)
  \/ BldAddStep
  \/ BldClear
  \/ \E n \in ModelNames : BldSetModelName(n)
  \/ BldGetContent
  \/ BldParse
  \/ \E c \in SetColors : BldSetColor(c)
  \/ \E color \in {Undefined, 1} : BldAddBrick(color)
  \/ BldAddPlate
  \/ BldAddWheel
  \/ \E d \in Documents : ParseFile(d)
  \/ PageLoaded
  \/ \E body \in ContentBodies, isPreview \in BOOLEAN, name \in SaveNames :
       ModelGenerated(body, isPreview, name)
  \/ \E r \in saves, ok \in BOOLEAN : SaveResponds(r, ok)
  \/ \E l \in view.loads, ok \in BOOLEAN : LoadSettles(l, ok)
  \/ RemovalRuns
  \/ \E filePath \in RequestPaths : Handler(filePath)

Spec == Init /\ [][Next]_vars

\* ------------------------------------------------------------- properties
Terminal == {"completed", "timedOut", "errored"}

\* The engine can take a fresh execute call.
EngineReady ==
  IF host = "browser" THEN edPc = "idle" /\ ~isExecuting
  ELSE nodePc = "idle"

\* C1: in every pipeline a script body runs only after static validation has
\* accepted its source text: whatever was executed had been validated, and
\* validation accepts it.
C1_ValidatedBeforeRun ==
  run.executed => (run.validated /\ run.srcValid)

\* C2: a source that validateCode accepts contains no denylisted statement
\* other than the permitted require('./ldrawBuilder'); in particular no
\* require of another module, whether or not the permitted one is present.
C2_RejectsUncovered ==
  run.validated => run.uncovered = {}

\* C3: every execute call that started has ended, in Completed, TimedOut or
\* Errored; none is left running (a looping script is cut off).
C3_ExecuteTerminates ==
  run.executed => run.outcome \in Terminal

\* C4: the only file a run writes is the output document at the engine's
\* path <outputDir>/<modelName>.ldr, inside the output directory.
C4_WritesOnlyOutput ==
  \A p \in run.written :
    /\ p = [dir |-> run.outputDir, file |-> ModelName(prompt)]
    /\ InsideDir(p, run.outputDir)

\* C5: a completed run delivers the document its source produces with an
\* untouched colour table and Builder, whatever earlier runs did.
C5_RunsIsolated ==
  run.outcome = "completed" => run.document = run.pristine

C7_NoOutputIsError ==
  run.outcome = "completed" => (run.returned \/ run.saved)

\* C8: at most one document is handed to onModelGenerated per execute call,
\* also when the script both calls save() and returns a string.
C8_OneDelivery ==
  Len(run.calls) <= 1

\* C9: a run that ends in an error (validation, timeout, script exception,
\* no output) has handed no document to onModelGenerated.
C9_ErrorRunDeliversNothing ==
  run.outcome \in {"rejected", "timedOut", "errored"} => run.calls = << >>

\* C10: with live preview on, every edit leaves exactly one pending timer,
\* holding the text of that edit, and executes nothing; when the timer of
\* the last edit of a burst fires there is exactly one execution, of the
\* text of that last edit, and no timer is left to cause a second one.
C10_Debounce ==
  (host = "browser" /\ edPc # "unmounted" /\ livePreview) =>
    /\ firesSinceArm <= 1
    /\ (firesSinceArm = 0 =>
          timers = {[code |-> code, handle |-> "ref"]})
    /\ (firesSinceArm = 1 =>
          /\ timers = {}
          /\ run.trigger = "debounce"
          /\ run.executed
          /\ run.ranLatest)

C10_Witness ==
  /\ firesSinceArm = 1 /\ livePreview
  /\ run.trigger = "debounce" /\ run.burst >= 3
  /\ run.ranLatest /\ timers = {}

\* ------------------------------------------------- page, viewer claims
\* C11: the result of a request changes what is displayed only if no newer
\* request's result has been applied before it: when the result of request 2
\* arrived first, the late result of request 1 is discarded.
C11_AppliedInOrder ==
  (pev.op \in {"saveApplied", "saveFallback"} /\ pev.gen < pev.shownGen)
    => ~pev.changed

C13_LastGoodVisible ==
  pev.op = "loadFailed" =>
    /\ view.refs.modelGroupRef = pev.prev
    /\ pev.prev # NoGroup =>
         (pev.prev \in view.scene /\ pev.prev \notin view.hidden)

TimesQueued(q, g) == Cardinality({i \in DOMAIN q : q[i] = g})

\* C14: a model that has been replaced by a displayed successor has its
\* disposal queued or done, exactly once; the step that retires a model
\* marks it invisible and empties the slot and leaves it in the scene,
\* undisposed; removal and disposal run in a later step, when the group is
\* not the displayed one.
C14_DeferredDisposal ==
  /\ \A g \in view.hidden :
       view.refs.modelGroupRef \notin {NoGroup, g}
         => TimesQueued(view.timeouts, g) + view.disposed[g] = 1
  /\ \A g \in 1..MaxLoads :
       /\ TimesQueued(view.timeouts, g) + view.disposed[g] <= 1
       /\ TimesQueued(view.timeouts, g) + view.disposed[g] = 1 =>
            (g \in view.hidden /\ view.refs.modelGroupRef # g)
       /\ TimesQueued(view.timeouts, g) = 1 => g \in view.scene
  /\ pev.swapped # NoGroup =>
       /\ pev.swapped \in view.hidden
       /\ pev.swapped \in view.scene
       /\ view.refs.modelGroupRef = NoGroup
       /\ view.disposed[pev.swapped] = 0
       /\ TimesQueued(view.timeouts, pev.swapped) = 1
  /\ pev.op = "disposed" =>
       /\ ~pev.wasDisplayed
       /\ view.disposed[pev.group] = 1
       /\ pev.group \notin view.scene

\* C26: when a load of the mounted viewer has ended, by success, failure
\* or cancellation, and the viewer has no other load in flight, the
\* in-flight flag is false again, so that a later request is not skipped.
C26_FlagReturnsToFalse ==
  (/\ pev.op \in {"loadApplied", "loadFailed", "loadDiscarded"}
   /\ pev.inst = page.previewKey
   /\ ~\E l \in view.loads : l.inst = page.previewKey)
    => ~view.refs.isLoadingRef

\* C27: a render that hands the viewer a raw content whose text differs
\* from the raw content it had is not skipped as already loaded or already
\* loading.
C27_DistinctContentLoads ==
  pev.contentChanged => ~pev.skippedAsSame

Visible(w) == w.scene \ w.hidden

\* C28: at most one model group of the scene is visible, and it is the
\* group held in modelGroupRef; a replaced model and its successor are
\* never visible together.
C28_OneVisibleModel ==
  /\ Cardinality(Visible(view)) <= 1
  /\ \A g \in Visible(view) : view.refs.modelGroupRef = g

\* The successor of a replaced model is displayed while the replaced model
\* is still in the scene, its removal pending.
C28_Witness ==
  /\ view.refs.modelGroupRef # NoGroup
  /\ view.timeouts # << >>
  /\ Head(view.timeouts) \in view.scene
  /\ Head(view.timeouts) # view.refs.modelGroupRef
  /\ Visible(view) = {view.refs.modelGroupRef}

\* ------------------------------------------------- builder, codec claims
LastOf(s) == s[Len(s)]
IsPart(el) == ~IsStep(el)
IsBlank(l) == TrimLine(l) = << >>
IsStepDirective(l) == TrimLine(l) = StepLine
NonBlankLines(t) == SelectSeq(SplitLines(t), LAMBDA l : ~IsBlank(l))
PlacementsOf(b) == SelectSeq(b.elements, IsPart)

\* C15: the element list never begins with a step marker and never holds
\* two adjacent step markers; addStep appends nothing when the list is empty
\* or ends with a step marker, and exactly one marker otherwise.
C15_StepCollapse ==
  /\ bld.elements # << >> => ~IsStep(bld.elements[1])
  /\ \A i \in 1..(Len(bld.elements) - 1) :
       ~(IsStep(bld.elements[i]) /\ IsStep(bld.elements[i + 1]))
  /\ cev.op = "addStep" =>
       bld.elements =
         IF cev.before.elements = << >> \/ IsStep(LastOf(cev.before.elements))
         THEN cev.before.elements
         ELSE Append(cev.before.elements, StepElement)

\* addStep was called on a list that ends with a step marker.
C15_Witness ==
  /\ cev.op = "addStep"
  /\ cev.before.elements # << >>
  /\ IsStep(LastOf(cev.before.elements))
  /\ bld.elements = cev.before.elements

\* C16: whatever the builder holds, the last non-blank line of the
\* serialized document is a step directive and the non-blank line before it
\* is not one.
C16_TrailingStep ==
  cev.op = "generate" =>
    LET ls == NonBlankLines(text)
    IN /\ Len(ls) >= 2
       /\ IsStepDirective(ls[Len(ls)])
       /\ ~IsStepDirective(ls[Len(ls) - 1])

\* A model whose last element is already a step marker was serialized.
C16_Witness ==
  /\ cev.op = "generate"
  /\ bld.elements # << >>
  /\ IsStep(LastOf(bld.elements))
  /\ IsStepDirective(LastOf(NonBlankLines(text)))

\* The placement a parsed part is compared with; flip is the factor applied
\* to y.
AsParsed(el, flip) ==
  [color |-> Number(el.color),
   position |-> << Number(el.x), Number(flip * el.y), Number(el.z) >>,
   matrix |-> [k \in 1..9 |-> Number(el.matrix[k])],
   partName |-> el.partName]

PurelyParts(b) == \A i \in 1..Len(b.elements) : IsPart(b.elements[i])

C18_SerializeReadOnly ==
  cev.op = "generate" =>
    /\ bld = cev.before
    /\ cev.prevText # NoText => text = cev.prevText

\* Two calls in a row on a model that is not empty.
C18_Witness ==
  /\ cev.op = "generate"
  /\ cev.prevText # NoText
  /\ text = cev.prevText
  /\ bld.elements # << >>

\* The 15 fields of the line of a placement.
FieldsOf(el) ==
  << << "1" >>, NumberToString(el.color), NumberToString(el.x),
     NumberToString(el.y), NumberToString(el.z) >>
  \o [k \in 1..9 |-> NumberToString(el.matrix[k])]
  \o << el.partName >>

ScenarioPart ==
  PartElement(<< "3", "0", "0", "1" >>, 4, 0, -8, -20,
              << 1, 0, 0, 0, 1, 0, 0, 0, 1 >>)
ScenarioLine ==
  << "1", " ", "4", " ", "0", " ", "-", "8", " ", "-", "2", "0", " ",
     "1", " ", "0", " ", "0", " ", "0", " ", "1", " ", "0", " ",
     "0", " ", "0", " ", "1", " ", "3", "0", "0", "1", ".", "d", "a", "t" >>

\* C19: the placements are serialized in insertion order, each as one line
\* of 15 fields separated by single spaces: 1, colour, x, y, z, the nine
\* orientation entries row by row, the part reference with .dat; the line of
\* addPart('3001', 4, 0, -8, -20) is 1 4 0 -8 -20 1 0 0 0 1 0 0 0 1 3001.dat.
C19_PlacementLine ==
  cev.op = "generate" =>
    LET ls == SelectSeq(SplitLines(text),
                        LAMBDA l : StartsWith(l, << "1", " " >>))
        ps == PlacementsOf(bld)
    IN /\ Len(ls) = Len(ps)
       /\ \A k \in 1..Len(ps) :
            /\ SplitSpaces(ls[k], << >>) = FieldsOf(ps[k])
            /\ ls[k] = Join(FieldsOf(ps[k]), << " " >>)
            /\ ps[k] = ScenarioPart => ls[k] = ScenarioLine

\* The scenario placement and a rotated one were serialized, in that order.
C19_Witness ==
  /\ cev.op = "generate"
  /\ Len(PlacementsOf(bld)) >= 2
  /\ PlacementsOf(bld)[1] = ScenarioPart
  /\ PlacementsOf(bld)[2].matrix = RotatedY90
  /\ \E k \in 1..Len(SplitLines(text)) : SplitLines(text)[k] = ScenarioLine

\* A line is a placement line when its first whitespace-separated token is
\* the marker 1 and it has at least 15 tokens.
IsPlacementLine(l) ==
  LET tokens == SplitSpaces(TrimLine(l), << >>)
  IN tokens[1] = << "1" >> /\ Len(tokens) >= 15

\* C20: parseLDrawFile returns one placement for each placement line, in
\* document order, and nothing for any other line.
C20_OnePartPerPlacementLine ==
  cev.op \in {"parse", "parseFile"} =>
    LET ls == SelectSeq(SplitLines(text), IsPlacementLine)
    IN parts = [k \in 1..Len(ls) |->
                  ParsePart(SplitSpaces(TrimLine(ls[k]), << >>))]

\* ------------------------------------------------- parser claims
Accepted(l) == ParseLine(l) # << >>

\* C21: for every accepted placement line, lines of more than 15 tokens
\* included, the part reference is the final token of the line, the colour
\* is token 2, the position comes from tokens 3 to 5 (y up to its sign) and
\* the orientation is tokens 6 to 14 in row-major order.
C21_FieldsFromTokens ==
  cev.op \in {"parse", "parseFile"} =>
    LET ls == SelectSeq(SplitLines(text), Accepted)
    IN /\ Len(parts) = Len(ls)
       /\ \A k \in 1..Len(ls) :
            LET tokens == SplitSpaces(TrimLine(ls[k]), << >>)
            IN /\ parts[k].partName = tokens[Len(tokens)]
               /\ parts[k].color = parseInt(tokens[2])
               /\ parts[k].position[1] = parseFloat(tokens[3])
               /\ parts[k].position[2] \in
                    {parseFloat(tokens[4]), Minus(parseFloat(tokens[4]))}
               /\ parts[k].position[3] = parseFloat(tokens[5])
               /\ \A j \in 1..9 :
                    parts[k].matrix[j] = parseFloat(tokens[5 + j])

\* ------------------------------------------------- colour claims
\* C22: addWheel records colour code 0 for the part it places, whatever
\* colour was last set with setColor and whatever calls preceded it, and
\* leaves the earlier elements and the colour last set as they were.
C22_WheelIsBlack ==
  cev.op = "addWheel" =>
    /\ Len(bld.elements) = Len(cev.before.elements) + 1
    /\ LastOf(bld.elements).color = 0
    /\ LastOf(bld.elements).partName = WheelNum \o DatSuffix
    /\ SubSeq(bld.elements, 1, Len(cev.before.elements))
         = cev.before.elements
    /\ bld.currentColor = cev.before.currentColor

\* A wheel was placed after setColor and after another placement.
C22_Witness ==
  /\ cev.op = "addWheel"
  /\ cev.before.currentColor \in SetColors
  /\ cev.before.elements # << >>
  /\ LastOf(bld.elements).color = 0

\* C23: a placement by addBrick or addPlate that leaves the colour to the
\* default records the colour last given to setColor; setColor changes the
\* colour of no element placed before it.
C23_DefaultColour ==
  /\ cev.op \in {"addBrickDefault", "addPlateDefault"} =>
       LastOf(bld.elements).color = cev.before.currentColor
  /\ cev.op = "setColor" => bld.elements = cev.before.elements

\* ------------------------------------------------- endpoint claims
\* The resolved path lies inside the output directory: below it, segment
\* for segment.
InsideOutput(segs) ==
  Len(segs) > Len(OutputDir) /\ SubSeq(segs, 1, Len(OutputDir)) = OutputDir

\* C24: the endpoint reads a file only when the resolved path of the
\* request lies inside the output directory; a request whose path resolves
\* outside it, a sibling directory whose name begins with the name of the
\* output directory included, is answered with 403 and reads no file.
C24_ServesOnlyOutput ==
  out.status # 0 =>
    /\ out.read # NoFile => InsideOutput(out.read)
    /\ (~InsideOutput(FullPath(out.path)) /\ FullPath(out.path) # OutputDir)
         => (out.status = 403 /\ out.read = NoFile)

\* ------------------------------------------------- editor claims
\* C25: every onModelGenerated call of a preview run, made for the
\* returned document or by save with or without a file name, carries the
\* name preview_temp and the preview flag, and handleModelGenerated writes
\* it to preview_temp.ldr.
C25_PreviewUsesTempName ==
  run.preview =>
    \A k \in 1..Len(run.calls) :
      /\ run.calls[k].filename = "preview_temp"
      /\ run.calls[k].isPreview
      /\ modelFilename(run.calls[k].filename, run.calls[k].isPreview)
           = PreviewName

\* A preview run of a script that saves under a name of its own and
\* returns its document made both calls.
C25_Witness ==
  /\ run.preview
  /\ run.ranLatest
  /\ code.body = << "saveAs", "return" >>
  /\ Len(run.calls) = 2
  /\ run.calls[1].via = "save"
  /\ run.calls[2].via = "return"

\* C29: at most one debounce timer is pending; while live preview is
\* off or the editor is unmounted no timer is pending, so a debounced
\* execution runs with live preview on only.
C29_OneTimerCancelled ==
  /\ Cardinality(timers) <= 1
  /\ (~livePreview \/ edPc = "unmounted") => timers = {}
  /\ run.trigger = "debounce" => livePreview

\* Live preview was switched off while a timer was pending: the timer is
\* gone.
C29_Witness ==
  /\ edPc = "idle"
  /\ ~livePreview
  /\ debounceTimerRef = "handle"
  /\ timers = {}
  /\ sinceMount.touched
  /\ firesSinceArm = 0

\* C30: while live preview is on and nothing was edited since the editor
\* mounted, the initial source has been executed exactly once.
C30_InitialRunOnce ==
  (edPc # "unmounted" /\ livePreview /\ ~sinceMount.touched)
    => sinceMount.runs = 1

====
